---- MODULE Spec2Model ----
(***************************************************************************)
(* A model of full_auto_research_bot.py: the main block, generate_outline  *)
(* and research_each_step, with every Playwright call a step that may      *)
(* succeed, raise playwright's TimeoutError or raise another Error.        *)
(*                                                                         *)
(* Texts (the outline, a section title, the clipboard, what is written to  *)
(* the output file) are sequences of strings, most of them one character   *)
(* long, so that re.findall and str.upper are computed character by        *)
(* character.                                                              *)
(*                                                                         *)
(* The calls that may raise are the Playwright calls (launch, new_page,    *)
(* the page calls, page.close) and pyperclip.paste.  print, sleep, open    *)
(* and f.write of the output file, os.makedirs and browser_context.close   *)
(* are taken to succeed.                                                   *)
(*                                                                         *)
(* The page is the environment: a loaded chat shows the Web Search         *)
(* checkbox checked or unchecked and a click that returns flips it; a      *)
(* click or click event on the copy button that returns leaves in the      *)
(* clipboard the response, an empty text, or what was there before.        *)
(*                                                                         *)
(* results, acquired, primary, fallbacks, trace, entered and report keep   *)
(* the history the properties speak of; the program does not read them.    *)
(***************************************************************************)
EXTENDS Integers, Sequences, FiniteSets, TLC

(***************************************************************************)
(* Bounds of the model.                                                    *)
(***************************************************************************)
\* the longest outline the AI surface delivers in the pipeline, in sections
MaxSections == 3
\* the longest outline handed to the section extractor alone, in blocks
MaxBlocks == 3
\* the longest topic of the runs that only build the file name, in characters
MaxTopicLen == 3

(***************************************************************************)
(* Text helpers.                                                           *)
(***************************************************************************)
None == <<"None">>

\* w occurs in s at position p
StartsWith(s, p, w) ==
    /\ p >= 1
    /\ p + Len(w) - 1 <= Len(s)
    /\ \A k \in 1..Len(w) : s[p + k - 1] = w[k]

RECURSIVE Flatten(_)
Flatten(ss) == IF ss = <<>> THEN <<>> ELSE Head(ss) \o Flatten(Tail(ss))

Introduction == <<"I", "n", "t", "r", "o", "d", "u", "c", "t", "i", "o", "n">>
StepWord == <<"S", "t", "e", "p", " ">>
Conclusion == <<"C", "o", "n", "c", "l", "u", "s", "i", "o", "n">>
Digits == {"0", "1", "2", "3", "4", "5", "6", "7", "8", "9"}
\* what \s matches
WhiteSpace == {" ", "\n", "\t", "\r"}
Dashes == <<"-", "-", "-">>

(***************************************************************************)
(* re.findall(r"(##\s(Introduction|Step \d+|Conclusion):.*?)(?=---)",      *)
(*            content_outline, re.DOTALL)                                  *)
(***************************************************************************)
\* \d+ from position p: the first position that holds no digit
RECURSIVE DigitsEnd(_, _)
DigitsEnd(s, p) ==
    IF p <= Len(s) /\ s[p] \in Digits THEN DigitsEnd(s, p + 1) ELSE p

\* (Introduction|Step \d+|Conclusion) at position p: the position after the
\* label, 0 when no alternative matches
LabelEnd(s, p) ==
    IF StartsWith(s, p, Introduction) THEN p + Len(Introduction)
    ELSE IF StartsWith(s, p, StepWord) /\ DigitsEnd(s, p + Len(StepWord)) > p + Len(StepWord)
         THEN DigitsEnd(s, p + Len(StepWord))
    ELSE IF StartsWith(s, p, Conclusion) THEN p + Len(Conclusion)
    ELSE 0

\* .*?(?=---) from position p: the first position at or after p where ---
\* starts, 0 when there is none (the lookahead admits no end of text)
RECURSIVE Lookahead(_, _)
Lookahead(s, p) ==
    IF p > Len(s) THEN 0
    ELSE IF StartsWith(s, p, Dashes) THEN p
    ELSE Lookahead(s, p + 1)

\* the pattern at position p: the position where the match ends (exclusive),
\* 0 when it does not match there
MatchEnd(s, p) ==
    IF /\ StartsWith(s, p, <<"#", "#">>)
       /\ p + 2 <= Len(s)
       /\ s[p + 2] \in WhiteSpace
       /\ LabelEnd(s, p + 3) # 0
       /\ StartsWith(s, LabelEnd(s, p + 3), <<":">>)
    THEN Lookahead(s, LabelEnd(s, p + 3) + 1)
    ELSE 0

\* the matches from position p on, left to right and not overlapping: the
\* pairs (group 1, group 2)
findall_from(s, start) ==
    LET from[p \in 1..(Len(s) + 1)] ==
            IF p > Len(s) THEN <<>>
            ELSE IF MatchEnd(s, p) # 0
                 THEN << <<SubSeq(s, p, MatchEnd(s, p) - 1),
                           SubSeq(s, p + 3, LabelEnd(s, p + 3) - 1)>> >>
                      \o from[MatchEnd(s, p)]
                 ELSE from[p + 1]
    IN from[start]

\* with the whole outline as one section when nothing matches
findall_or_whole(content_outline) ==
    IF findall_from(content_outline, 1) = <<>>
    THEN << <<content_outline, Introduction>> >>
    ELSE findall_from(content_outline, 1)

findall(content_outline) == findall_from(content_outline, 1)

\* section_titles = [s[1] for s in sections]
RECURSIVE Distinct(_)
Distinct(ts) ==
    IF ts = <<>> THEN <<>>
    ELSE LET rest == Distinct(SubSeq(ts, 1, Len(ts) - 1))
         IN IF \E k \in 1..(Len(ts) - 1) : ts[k] = ts[Len(ts)]
            THEN rest ELSE Append(rest, ts[Len(ts)])

Titles_distinct(sections) ==
    Distinct([k \in 1..Len(sections) |-> sections[k][2]])

Titles(sections) == [k \in 1..Len(sections) |-> sections[k][2]]

(***************************************************************************)
(* str.upper, on the characters the titles are made of.                    *)
(***************************************************************************)
LowerCase == <<"a", "b", "c", "d", "e", "f", "g", "h", "i", "j", "k", "l", "m",
               "n", "o", "p", "q", "r", "s", "t", "u", "v", "w", "x", "y", "z">>
UpperCase == <<"A", "B", "C", "D", "E", "F", "G", "H", "I", "J", "K", "L", "M",
               "N", "O", "P", "Q", "R", "S", "T", "U", "V", "W", "X", "Y", "Z">>

\* the upper-case letter of each lower-case letter
UpperOf ==
    [c \in {LowerCase[k] : k \in 1..Len(LowerCase)} |->
        UpperCase[CHOOSE k \in 1..Len(LowerCase) : LowerCase[k] = c]]

upper_char(c) == IF c \in DOMAIN UpperOf THEN UpperOf[c] ELSE c

upper(s) == [k \in 1..Len(s) |-> upper_char(s[k])]

(***************************************************************************)
(* What is written to the output file.  One append (one with-block of      *)
(* open(output_filepath, 'a')) is the sequence of the strings its f.write  *)
(* calls wrote.                                                            *)
(***************************************************************************)
Rule == [k \in 1..20 |-> "="]

\* f"\n\n{'=' * 20} {section_title.upper()} {'=' * 20}\n\n"
HeaderLine(section_title) ==
    <<"\n", "\n">> \o Rule \o <<" ">> \o upper(section_title) \o <<" ">> \o Rule
        \o <<"\n", "\n">>

\* f"--- ERROR: FAILED TO COPY CONTENT FOR {section_title} ---\n"
CopyFailedText(section_title) ==
    <<"--- ERROR: FAILED TO COPY CONTENT FOR ">> \o section_title \o <<" ---\n">>

\* f"\n\n--- ERROR DURING RESEARCH FOR: {section_title} ---\nDetails: {e}\n\n"
ErrorBlock(section_title, e) ==
    <<"\n\n--- ERROR DURING RESEARCH FOR: ">> \o section_title
        \o <<" ---\nDetails: ">> \o e.msg \o <<"\n\n">>

\* the append of lines 145-147
SectionRecord(section_title, text) == <<HeaderLine(section_title), text>>

\* the append of lines 152-153
ErrorRecord(section_title, e) == <<ErrorBlock(section_title, e)>>

(***************************************************************************)
(* Exceptions.  A Playwright call ends "ok", raises playwright's           *)
(* TimeoutError or raises another Error; both derive from Exception.       *)
(***************************************************************************)
NoExc == [type |-> "none", msg |-> <<>>, at |-> "none"]
Outcomes == {"ok", "TimeoutError", "Error"}

\* the exception a call raises: its type, str(e), and the statement that raised
Raise(type, at) ==
    [type |-> type,
     msg |-> IF type = "TimeoutError" THEN <<"Timeout exceeded.">>
             ELSE <<"Target closed.">>,
     at |-> at]

\* raise TimeoutError(f"z.ai did not generate a response for
\* '{section_title}' within {int(RESPONSE_TIMEOUT / 60000)} minutes.")
NoResponse(section_title) ==
    [type |-> "TimeoutError",
     msg |-> <<"z.ai did not generate a response for '">> \o section_title
             \o <<"' within 15 minutes.">>,
     at |-> "rs_await"]

(***************************************************************************)
(* The texts the AI surface delivers.                                      *)
(***************************************************************************)
DigitChar == <<"0", "1", "2", "3", "4", "5", "6", "7", "8", "9">>
Separator == <<"-", "-", "-", "\n">>
Preamble == <<"H", "e", "r", "e", ":", "\n">>
Stale == <<"o", "l", "d">>

\* a heading line of the outline and the line below it
Section(title) == <<"#", "#", " ">> \o title \o <<":", " ", "a", "\n", "b", "\n">>

\* the title of the j-th of n sections: Introduction, Step 1, ..., Conclusion
TitleAt(j, n) ==
    IF j = 1 THEN Introduction
    ELSE IF j = n THEN Conclusion
    ELSE StepWord \o <<DigitChar[j]>>

\* an outline of n sections with --- between them, and after the last when
\* terminated
OutlineOf(n, terminated) ==
    Preamble \o Flatten([j \in 1..n |->
        Section(TitleAt(j, n)) \o (IF j < n \/ terminated THEN Separator ELSE <<>>)])

\* the outlines the outline step's copy may deliver
Outlines == {OutlineOf(n, t) : n \in 0..MaxSections, t \in BOOLEAN}

\* the response the copy delivers for a section's prompt
Response(section_title) == <<"R", "e", ":", " ">> \o section_title

\* the outlines handed to the extractor alone: up to MaxBlocks blocks, each
\* a section with its --- line ("terminated"), a section without it
\* ("unterminated") or text that holds no heading of the grammar ("other")
Block(kind, title, text) == [kind |-> kind, title |-> title, text |-> text]
BlockTitles == {Introduction, StepWord \o <<"1">>, StepWord \o <<"1", "2">>, Conclusion}
Terminated ==
    {Block("terminated", t, Section(t) \o Separator) : t \in BlockTitles}
    \cup {Block("terminated", Introduction,
                <<"#", "#", " ">> \o Introduction
                    \o <<":", "|", "-", "-", "-", "|", "\n">> \o Separator)}
Unterminated == {Block("unterminated", t, Section(t)) : t \in BlockTitles}
Other ==
    {Block("other", <<>>, x) :
        x \in {<<"t", "e", "x", "t", "\n">>,
               <<"#", "#", " ", " ">> \o Conclusion \o <<":", "\n">> \o Separator,
               <<"#", "#", " ">> \o StepWord \o <<"x", ":", "\n">> \o Separator,
               <<"#", " ", "S", "u", "m", "m", "a", "r", "y", ":", "\n">> \o Separator}}
Blocks == Terminated \cup Unterminated \cup Other
BlockSeqs == UNION {[1..k -> Blocks] : k \in 1..MaxBlocks}
TextOf(bs) == Flatten([k \in 1..Len(bs) |-> bs[k].text])

(***************************************************************************)
(* The topic in the file name (line 172).                                  *)
(***************************************************************************)
\* c.isalnum(), for the characters of the topics
isalnum(c) ==
    c \in {LowerCase[k] : k \in 1..Len(LowerCase)}
           \cup {UpperCase[k] : k \in 1..Len(UpperCase)} \cup Digits

\* c.isalnum() or c in (' ', '_')
Kept(c) == isalnum(c) \/ c \in {" ", "_"}

\* what str.rstrip() strips
StripSet == {" ", "\t", "\n", "\r"}

\* s.rstrip()
RECURSIVE rstrip(_)
rstrip(s) ==
    IF s # <<>> /\ s[Len(s)] \in StripSet THEN rstrip(SubSeq(s, 1, Len(s) - 1)) ELSE s

\* s.replace(' ', '_')
replace(s) == [k \in 1..Len(s) |-> IF s[k] = " " THEN "_" ELSE s[k]]

\* line 172 with replace called before rstrip
SafeTopic_replace_first(topic) == rstrip(replace(SelectSeq(topic, Kept)))

\* "".join(c for c in main_topic if c.isalnum() or c in (' ', '_'))
\*     .rstrip().replace(' ', '_')
SafeTopic(topic) == replace(rstrip(SelectSeq(topic, Kept)))

\* the topics of the runs that stop after line 174: every string of up to
\* MaxTopicLen characters of TopicChars, and the topic 'AI & ML: 2024!'
TopicChars == {"A", "z", "7", " ", "_", "&", "\t"}
ExampleTopic ==
    <<"A", "I", " ", "&", " ", "M", "L", ":", " ", "2", "0", "2", "4", "!">>
TopicStrings ==
    UNION {[1..n -> TopicChars] : n \in 0..MaxTopicLen} \cup {ExampleTopic}

VARIABLES
    pc,               \* the statement about to run
    exc,              \* the exception being handled or propagated
    main_topic,       \* main: the topic read from the operator
    safe_topic,       \* main: the topic as it goes into the file name
    dirExists,        \* whether RESEARCH_DIR exists
    browser_context,  \* main: "None", "open" or "closed"
    outline,          \* main: what generate_outline returned
    report,           \* the last stage report main printed
    openPages,        \* the pages (surfaces) that are open
    webSearch,        \* data-state of the Web Search checkbox of the page
    toggles,          \* clicks on the checkbox in the current session
    clipboard,        \* the system clipboard
    fileExists,       \* whether the output file exists
    file,             \* the appends made to the output file, in order
    section_titles,   \* research_each_step: the extracted titles
    i,                \* research_each_step: the loop index, from 1
    page,             \* research_each_step: None or the section's page
    researched_text,  \* research_each_step: the text about to be written
    results,          \* per section, how its session ended
    acquired,         \* the pages research_each_step has opened
    primary,          \* the current session's click: "none" or its outcome
    fallbacks,        \* dispatch_event calls in the current session
    trace,            \* the calls of the current session, each with its outcome
    entered,          \* whether research_each_step was called
    blocks            \* the blocks of the outline handed to the extractor

vars == <<pc, exc, main_topic, safe_topic, dirExists, browser_context, outline, report,
          openPages, webSearch, toggles, clipboard, fileExists, file,
          section_titles, i, page, researched_text, results, acquired,
          primary, fallbacks, trace, entered, blocks>>

mainVars == <<main_topic, safe_topic, dirExists, browser_context, outline, report>>
fileVars == <<fileExists, file>>
loopVars == <<section_titles, i, page, researched_text, results, acquired, entered>>
sessionVars == <<webSearch, toggles, primary, fallbacks, trace>>

Topics == {<<>>, <<"A", "I">>}

Init ==
    /\ pc = "main_input"
    /\ exc = NoExc
    /\ main_topic \in Topics
    /\ safe_topic = <<>>
    /\ dirExists \in BOOLEAN
    /\ browser_context = "None"
    /\ outline = None
    /\ report = "none"
    /\ openPages = {}
    /\ webSearch = "unchecked"
    /\ toggles = 0
    /\ clipboard \in {<<>>, Stale}
    /\ fileExists = FALSE
    /\ file = <<>>
    /\ section_titles = <<>>
    /\ i = 0
    /\ page = None
    /\ researched_text = <<>>
    /\ results = <<>>
    /\ acquired = 0
    /\ primary = "none"
    /\ fallbacks = 0
    /\ trace = <<>>
    /\ entered = FALSE
    /\ blocks = <<>>

(***************************************************************************)
(* The main block, up to the call of generate_outline.                     *)
(***************************************************************************)
\* line 162 without the test of lines 163-165: the run goes on with any topic
main_input_unchecked ==
    /\ pc = "main_input"
    /\ pc' = "main_setup"
    /\ UNCHANGED <<exc, main_topic, safe_topic,
                   dirExists, browser_context, outline, report,
                   openPages, clipboard, fileVars, loopVars, sessionVars, blocks>>

\* lines 162-165
main_input ==
    /\ pc = "main_input"
    /\ IF main_topic = <<>>
       THEN pc' = "exited" /\ report' = "no_topic"
       ELSE pc' = "main_setup" /\ report' = report
    /\ UNCHANGED <<exc, main_topic, safe_topic,
                   dirExists, browser_context, outline, openPages,
                   clipboard, fileVars, loopVars, sessionVars, blocks>>

\* lines 167-174
main_setup ==
    /\ pc = "main_setup"
    /\ dirExists' = TRUE
    /\ safe_topic' = SafeTopic(main_topic)
    /\ pc' = "main_launch"
    /\ UNCHANGED <<exc, main_topic, browser_context, outline, report, openPages,
                   clipboard, fileVars, loopVars, sessionVars, blocks>>

\* lines 176-185
main_launch ==
    /\ pc = "main_launch"
    /\ \E r \in {"ok", "Error"} :
        IF r = "ok"
        THEN browser_context' = "open" /\ pc' = "main_new_page" /\ exc' = exc
        ELSE browser_context' = browser_context /\ pc' = "main_except"
             /\ exc' = Raise(r, "main_launch")
    /\ UNCHANGED <<main_topic, safe_topic,
                   dirExists, outline, report, openPages,
                   clipboard, fileVars, loopVars, sessionVars, blocks>>

\* line 187, and the entry of generate_outline (lines 20-22)
main_new_page ==
    /\ pc = "main_new_page"
    /\ \E r \in {"ok", "Error"} :
        /\ trace' = <<<<"main_new_page", r>>>>
        /\ IF r = "ok"
           THEN openPages' = openPages \cup {"outline"} /\ pc' = "go_navigate"
                /\ exc' = exc
           ELSE openPages' = openPages /\ pc' = "main_except"
                /\ exc' = Raise(r, "main_new_page")
    /\ toggles' = 0 /\ primary' = "none" /\ fallbacks' = 0
    /\ UNCHANGED <<mainVars, webSearch, clipboard, fileVars, loopVars, blocks>>

(***************************************************************************)
(* generate_outline.                                                       *)
(***************************************************************************)
\* except Exception as e (line 76): where an exception raised in the try
\* block of generate_outline goes
generate_outline_except_timeout_only(e) ==
    IF e.type = "TimeoutError" THEN "go_except" ELSE "main_except"

generate_outline_except(e) == "go_except"

\* except TimeoutError (line 61): where an exception of the click goes
go_click_except(e) ==
    IF e.type = "TimeoutError" THEN "go_dispatch" ELSE generate_outline_except(e)

\* a call of the try block that changes nothing the model keeps
go_call(here, next) ==
    /\ pc = here
    /\ \E r \in Outcomes :
        /\ trace' = Append(trace, <<here, r>>)
        /\ IF r = "ok"
           THEN pc' = next /\ exc' = exc
           ELSE exc' = Raise(r, here) /\ pc' = generate_outline_except(exc')
    /\ UNCHANGED <<mainVars, openPages, clipboard, fileVars, loopVars,
                   webSearch, toggles, primary, fallbacks, blocks>>

\* lines 23-26
go_navigate ==
    /\ pc = "go_navigate"
    /\ \E r \in Outcomes :
        /\ trace' = Append(trace, <<"go_navigate", r>>)
        /\ IF r = "ok"
           THEN /\ webSearch' \in {"checked", "unchecked"}
                /\ pc' = "go_tools" /\ exc' = exc
           ELSE /\ webSearch' = webSearch
                /\ exc' = Raise(r, "go_navigate") /\ pc' = generate_outline_except(exc')
    /\ UNCHANGED <<mainVars, openPages, clipboard, fileVars, loopVars,
                   toggles, primary, fallbacks, blocks>>

\* lines 28-33
go_tools == go_call("go_tools", "go_enable")

\* the test of lines 34 and 110 left out: the checkbox is always clicked
Unchecked_always(data_state) == TRUE

\* get_attribute("data-state") == "unchecked" (lines 34 and 110)
Unchecked(data_state) == data_state = "unchecked"

\* web_search_checkbox.click() (lines 35 and 111): the data-state the click
\* leaves
Clicked(data_state) == IF data_state = "unchecked" THEN "checked" ELSE "unchecked"

\* lines 34-38
go_enable ==
    /\ pc = "go_enable"
    /\ \E r \in Outcomes :
        /\ trace' = Append(trace, <<"go_enable", r>>)
        /\ IF r = "ok"
           THEN /\ IF Unchecked(webSearch)
                   THEN webSearch' = Clicked(webSearch) /\ toggles' = toggles + 1
                   ELSE UNCHANGED <<webSearch, toggles>>
                /\ pc' = "go_dismiss" /\ exc' = exc
           ELSE /\ UNCHANGED <<webSearch, toggles>>
                /\ exc' = Raise(r, "go_enable") /\ pc' = generate_outline_except(exc')
    /\ UNCHANGED <<mainVars, openPages, clipboard, fileVars, loopVars,
                   primary, fallbacks, blocks>>

\* lines 39-41
go_dismiss == go_call("go_dismiss", "go_submit")

\* lines 43-49
go_submit == go_call("go_submit", "go_await")

\* lines 51-52
go_await == go_call("go_await", "go_attach")

\* lines 54-56
go_attach == go_call("go_attach", "go_click")

\* what a copy that did not raise leaves in the clipboard: the text of the
\* response, an empty text, or what was there when the page wrote nothing
Copied(response) == {response, <<>>, clipboard}

\* lines 58-60
go_click ==
    /\ pc = "go_click"
    /\ \E r \in Outcomes :
        /\ trace' = Append(trace, <<"go_click", r>>)
        /\ primary' = r
        /\ IF r = "ok"
           THEN /\ \E o \in Outlines : clipboard' \in Copied(o)
                /\ pc' = "go_paste" /\ exc' = exc
           ELSE /\ clipboard' = clipboard
                /\ exc' = Raise(r, "go_click") /\ pc' = go_click_except(exc')
    /\ UNCHANGED <<mainVars, openPages, fileVars, loopVars, webSearch, toggles,
                   fallbacks, blocks>>

\* lines 61-63
go_dispatch ==
    /\ pc = "go_dispatch"
    /\ fallbacks' = fallbacks + 1
    /\ \E r \in Outcomes :
        /\ trace' = Append(trace, <<"go_dispatch", r>>)
        /\ IF r = "ok"
           THEN /\ \E o \in Outlines : clipboard' \in Copied(o)
                /\ pc' = "go_paste" /\ exc' = NoExc
           ELSE /\ clipboard' = clipboard
                /\ exc' = Raise(r, "go_dispatch") /\ pc' = generate_outline_except(exc')
    /\ UNCHANGED <<mainVars, openPages, fileVars, loopVars, webSearch, toggles,
                   primary, blocks>>

\* lines 65-74
go_paste ==
    /\ pc = "go_paste"
    /\ \E r \in {"ok", "Error"} :
        /\ trace' = Append(trace, <<"go_paste", r>>)
        /\ IF r = "ok"
           THEN /\ outline' = IF clipboard = <<>> THEN None ELSE clipboard
                /\ pc' = "main_close_outline" /\ exc' = exc
           ELSE /\ outline' = outline
                /\ exc' = Raise(r, "go_paste") /\ pc' = generate_outline_except(exc')
    /\ UNCHANGED <<main_topic, safe_topic,
                   dirExists, browser_context, report, openPages,
                   clipboard, fileVars, loopVars, webSearch, toggles, primary,
                   fallbacks, blocks>>

\* lines 76-78
go_except ==
    /\ pc = "go_except"
    /\ outline' = None
    /\ exc' = NoExc
    /\ pc' = "main_close_outline"
    /\ UNCHANGED <<main_topic, safe_topic,
                   dirExists, browser_context, report, openPages,
                   clipboard, fileVars, loopVars, sessionVars, blocks>>

(***************************************************************************)
(* The main block, after generate_outline.                                 *)
(***************************************************************************)
\* if outline: (line 191), with the test for the empty string alone
Truthy_nonempty(text) == text # <<>>

\* if outline: (line 191)
Truthy(text) == text # None /\ text # <<>>

\* page.close() without the page leaving the open pages
ClosePage_leak(p) == openPages

\* page.close() (lines 156 and 189): the pages left open
ClosePage(p) == openPages \ {p}

\* line 189
main_close_outline ==
    /\ pc = "main_close_outline"
    /\ \E r \in Outcomes :
        IF r = "ok"
        THEN openPages' = ClosePage("outline") /\ pc' = "main_branch"
             /\ exc' = exc
        ELSE /\ openPages' \in {openPages, ClosePage("outline")}
             /\ exc' = Raise(r, "main_close_outline") /\ pc' = "main_except"
    /\ UNCHANGED <<mainVars, clipboard, fileVars, loopVars, sessionVars, blocks>>

\* lines 191-192 and 195-196
main_branch ==
    /\ pc = "main_branch"
    /\ IF Truthy(outline)
       THEN pc' = "res_findall" /\ entered' = TRUE /\ report' = report
       ELSE pc' = "main_finally" /\ entered' = entered /\ report' = "skipped"
    /\ UNCHANGED <<exc, main_topic, safe_topic,
                   dirExists, browser_context, outline, openPages,
                   clipboard, fileVars, section_titles, i, page, researched_text,
                   results, acquired, sessionVars, blocks>>

\* lines 193-194
main_processed ==
    /\ pc = "main_processed"
    /\ report' = "processed"
    /\ pc' = "main_finally"
    /\ UNCHANGED <<exc, main_topic, safe_topic,
                   dirExists, browser_context, outline, openPages,
                   clipboard, fileVars, loopVars, sessionVars, blocks>>

\* lines 198-199
main_except ==
    /\ pc = "main_except"
    /\ report' = "critical"
    /\ exc' = NoExc
    /\ pc' = "main_finally"
    /\ UNCHANGED <<main_topic, safe_topic,
                   dirExists, browser_context, outline, openPages,
                   clipboard, fileVars, loopVars, sessionVars, blocks>>

\* lines 200-203: closing the context closes its pages
main_finally ==
    /\ pc = "main_finally"
    /\ IF browser_context # "None"
       THEN browser_context' = "closed" /\ openPages' = {}
       ELSE UNCHANGED <<browser_context, openPages>>
    /\ pc' = "done"
    /\ UNCHANGED <<exc, main_topic, safe_topic,
                   dirExists, outline, report,
                   clipboard, fileVars, loopVars, sessionVars, blocks>>

(***************************************************************************)
(* research_each_step.                                                     *)
(***************************************************************************)
\* how a session ended: Ok(text) or Failed(reason)
Ok(text) == [ok |-> TRUE, val |-> text]
Failed(reason) == [ok |-> FALSE, val |-> reason]
EmptyExtraction == <<"EmptyExtraction">>

\* lines 86-95
res_findall ==
    /\ pc = "res_findall"
    /\ LET sections == findall(outline)
       IN IF sections = <<>>
          THEN pc' = "main_processed" /\ UNCHANGED <<section_titles, i>>
          ELSE /\ section_titles' = Titles(sections)
               /\ i' = 1
               /\ pc' = "rs_new_page"
    /\ UNCHANGED <<exc, mainVars, openPages, clipboard, fileVars, page,
                   researched_text, results, acquired, entered, sessionVars, blocks>>

\* the loop variable of line 97, stuck at the first title
section_title_first == section_titles[1]

\* the loop variable of line 97
section_title == section_titles[i]

\* except Exception as e (line 150): where an exception raised in the try
\* block of the loop body goes
research_except(e) == "rs_except"

\* except TimeoutError (line 134): where an exception of the click goes
rs_click_except(e) ==
    IF e.type = "TimeoutError" THEN "rs_dispatch" ELSE research_except(e)

\* a call of the try block that changes nothing the model keeps
rs_call(here, next) ==
    /\ pc = here
    /\ \E r \in Outcomes :
        /\ trace' = Append(trace, <<here, r>>)
        /\ IF r = "ok"
           THEN pc' = next /\ exc' = exc
           ELSE exc' = Raise(r, here) /\ pc' = research_except(exc')
    /\ UNCHANGED <<mainVars, openPages, clipboard, fileVars, loopVars,
                   webSearch, toggles, primary, fallbacks, blocks>>

\* lines 97-103
rs_new_page ==
    /\ pc = "rs_new_page"
    /\ toggles' = 0 /\ primary' = "none" /\ fallbacks' = 0
    /\ \E r \in {"ok", "Error"} :
        /\ trace' = <<<<"rs_new_page", r>>>>
        /\ IF r = "ok"
           THEN /\ page' = <<"page", DigitChar[i + 1]>>
                /\ openPages' = openPages \cup {page'}
                /\ acquired' = acquired + 1
                /\ pc' = "rs_navigate" /\ exc' = exc
           ELSE /\ page' = None
                /\ UNCHANGED <<openPages, acquired>>
                /\ exc' = Raise(r, "rs_new_page") /\ pc' = research_except(exc')
    /\ UNCHANGED <<mainVars, clipboard, fileVars, section_titles, i,
                   researched_text, results, entered, webSearch, blocks>>

\* lines 104-105
rs_navigate ==
    /\ pc = "rs_navigate"
    /\ \E r \in Outcomes :
        /\ trace' = Append(trace, <<"rs_navigate", r>>)
        /\ IF r = "ok"
           THEN /\ webSearch' \in {"checked", "unchecked"}
                /\ pc' = "rs_tools" /\ exc' = exc
           ELSE /\ webSearch' = webSearch
                /\ exc' = Raise(r, "rs_navigate") /\ pc' = research_except(exc')
    /\ UNCHANGED <<mainVars, openPages, clipboard, fileVars, loopVars,
                   toggles, primary, fallbacks, blocks>>

\* lines 107-109 with lines 110-111 left out
rs_tools_skip_enable == rs_call("rs_tools", "rs_dismiss")

\* lines 107-109
rs_tools == rs_call("rs_tools", "rs_enable")

\* lines 110-111
rs_enable ==
    /\ pc = "rs_enable"
    /\ \E r \in Outcomes :
        /\ trace' = Append(trace, <<"rs_enable", r>>)
        /\ IF r = "ok"
           THEN /\ IF Unchecked(webSearch)
                   THEN webSearch' = Clicked(webSearch) /\ toggles' = toggles + 1
                   ELSE UNCHANGED <<webSearch, toggles>>
                /\ pc' = "rs_dismiss" /\ exc' = exc
           ELSE /\ UNCHANGED <<webSearch, toggles>>
                /\ exc' = Raise(r, "rs_enable") /\ pc' = research_except(exc')
    /\ UNCHANGED <<mainVars, openPages, clipboard, fileVars, loopVars,
                   primary, fallbacks, blocks>>

\* lines 112-113
rs_dismiss == rs_call("rs_dismiss", "rs_submit")

\* lines 115-118
rs_submit == rs_call("rs_submit", "rs_await")

\* lines 120-122 with the TimeoutError of the wait passed over: the session
\* goes on to the copy button
rs_await_swallow ==
    /\ pc = "rs_await"
    /\ \E r \in Outcomes :
        /\ trace' = Append(trace, <<"rs_await", r>>)
        /\ IF r \in {"ok", "TimeoutError"}
           THEN pc' = "rs_attach" /\ exc' = exc
           ELSE exc' = Raise(r, "rs_await") /\ pc' = research_except(exc')
    /\ UNCHANGED <<mainVars, openPages, clipboard, fileVars, loopVars,
                   webSearch, toggles, primary, fallbacks, blocks>>

\* lines 120-125
rs_await ==
    /\ pc = "rs_await"
    /\ \E r \in Outcomes :
        /\ trace' = Append(trace, <<"rs_await", r>>)
        /\ IF r = "ok"
           THEN pc' = "rs_attach" /\ exc' = exc
           ELSE /\ exc' = IF r = "TimeoutError" THEN NoResponse(section_title)
                          ELSE Raise(r, "rs_await")
                /\ pc' = research_except(exc')
    /\ UNCHANGED <<mainVars, openPages, clipboard, fileVars, loopVars,
                   webSearch, toggles, primary, fallbacks, blocks>>

\* lines 127-129
rs_attach == rs_call("rs_attach", "rs_click")

\* lines 131-133
rs_click ==
    /\ pc = "rs_click"
    /\ \E r \in Outcomes :
        /\ trace' = Append(trace, <<"rs_click", r>>)
        /\ primary' = r
        /\ IF r = "ok"
           THEN /\ clipboard' \in Copied(Response(section_title))
                /\ pc' = "rs_paste" /\ exc' = exc
           ELSE /\ clipboard' = clipboard
                /\ exc' = Raise(r, "rs_click") /\ pc' = rs_click_except(exc')
    /\ UNCHANGED <<mainVars, openPages, fileVars, loopVars, webSearch, toggles,
                   fallbacks, blocks>>

\* lines 134-136
rs_dispatch ==
    /\ pc = "rs_dispatch"
    /\ fallbacks' = fallbacks + 1
    /\ \E r \in Outcomes :
        /\ trace' = Append(trace, <<"rs_dispatch", r>>)
        /\ IF r = "ok"
           THEN /\ clipboard' \in Copied(Response(section_title))
                /\ pc' = "rs_paste" /\ exc' = NoExc
           ELSE /\ clipboard' = clipboard
                /\ exc' = Raise(r, "rs_dispatch") /\ pc' = research_except(exc')
    /\ UNCHANGED <<mainVars, openPages, fileVars, loopVars, webSearch, toggles,
                   primary, blocks>>

\* lines 138-141 without the test of line 142: what was read is the text
rs_paste_unchecked ==
    /\ pc = "rs_paste"
    /\ \E r \in {"ok", "Error"} :
        /\ trace' = Append(trace, <<"rs_paste", r>>)
        /\ IF r = "ok"
           THEN /\ researched_text' = clipboard
                /\ results' = Append(results, Ok(clipboard))
                /\ pc' = "rs_write" /\ exc' = exc
           ELSE /\ UNCHANGED <<researched_text, results>>
                /\ exc' = Raise(r, "rs_paste") /\ pc' = research_except(exc')
    /\ UNCHANGED <<mainVars, openPages, clipboard, fileVars, section_titles, i,
                   page, acquired, entered, webSearch, toggles, primary,
                   fallbacks, blocks>>

\* lines 138-143
rs_paste ==
    /\ pc = "rs_paste"
    /\ \E r \in {"ok", "Error"} :
        /\ trace' = Append(trace, <<"rs_paste", r>>)
        /\ IF r = "ok"
           THEN /\ researched_text' = IF clipboard = <<>>
                                      THEN CopyFailedText(section_title)
                                      ELSE clipboard
                /\ results' = Append(results, IF clipboard = <<>>
                                              THEN Failed(EmptyExtraction)
                                              ELSE Ok(clipboard))
                /\ pc' = "rs_write" /\ exc' = exc
           ELSE /\ UNCHANGED <<researched_text, results>>
                /\ exc' = Raise(r, "rs_paste") /\ pc' = research_except(exc')
    /\ UNCHANGED <<mainVars, openPages, clipboard, fileVars, section_titles, i,
                   page, acquired, entered, webSearch, toggles, primary, fallbacks, blocks>>

\* lines 145-148 with the file opened in mode 'w': what was written is lost
rs_write_truncate ==
    /\ pc = "rs_write"
    /\ fileExists' = TRUE
    /\ file' = <<SectionRecord(section_title, researched_text)>>
    /\ pc' = "rs_finally"
    /\ UNCHANGED <<exc, mainVars, openPages, clipboard, loopVars, sessionVars, blocks>>

\* lines 145-148
rs_write ==
    /\ pc = "rs_write"
    /\ fileExists' = TRUE
    /\ file' = Append(file, SectionRecord(section_title, researched_text))
    /\ pc' = "rs_finally"
    /\ UNCHANGED <<exc, mainVars, openPages, clipboard, loopVars, sessionVars, blocks>>

\* lines 150-151 alone: the error printed and not written
rs_except_print_only ==
    /\ pc = "rs_except"
    /\ results' = Append(results, Failed(exc.msg))
    /\ exc' = NoExc
    /\ pc' = "rs_finally"
    /\ UNCHANGED <<mainVars, openPages, clipboard, fileVars, section_titles, i, page,
                   researched_text, acquired, entered, sessionVars, blocks>>

\* lines 150-153
rs_except ==
    /\ pc = "rs_except"
    /\ fileExists' = TRUE
    /\ file' = Append(file, ErrorRecord(section_title, exc))
    /\ results' = Append(results, Failed(exc.msg))
    /\ exc' = NoExc
    /\ pc' = "rs_finally"
    /\ UNCHANGED <<mainVars, openPages, clipboard, section_titles, i, page,
                   researched_text, acquired, entered, sessionVars, blocks>>

\* the loop of line 97 after the body of section i: the next section, or the
\* return to line 193
rs_next ==
    IF i < Len(section_titles)
    THEN i' = i + 1 /\ pc' = "rs_new_page"
    ELSE i' = i /\ pc' = "main_processed"

\* lines 154-157
rs_finally ==
    /\ pc = "rs_finally"
    /\ IF page # None
       THEN \E r \in Outcomes :
              IF r = "ok"
              THEN /\ openPages' = ClosePage(page)
                   /\ exc' = exc
                   /\ rs_next
              ELSE /\ openPages' \in {openPages, ClosePage(page)}
                   /\ exc' = Raise(r, "rs_finally")
                   /\ i' = i /\ pc' = "main_except"
       ELSE /\ UNCHANGED <<openPages, exc>>
            /\ rs_next
    /\ UNCHANGED <<mainVars, clipboard, fileVars, section_titles, page,
                   researched_text, results, acquired, entered, sessionVars, blocks>>

(***************************************************************************)
(* The specification of the whole run.                                     *)
(***************************************************************************)
Next ==
    \/ main_input \/ main_setup \/ main_launch \/ main_new_page
    \/ go_navigate \/ go_tools \/ go_enable \/ go_dismiss \/ go_submit
    \/ go_await \/ go_attach \/ go_click \/ go_dispatch \/ go_paste \/ go_except
    \/ main_close_outline \/ main_branch \/ main_processed \/ main_except
    \/ main_finally
    \/ res_findall
    \/ rs_new_page \/ rs_navigate \/ rs_tools \/ rs_enable \/ rs_dismiss
    \/ rs_submit \/ rs_await \/ rs_attach \/ rs_click \/ rs_dispatch \/ rs_paste
    \/ rs_write \/ rs_except \/ rs_finally

Spec == Init /\ [][Next]_vars

\* the program is one thread and every call of it is bounded by a timeout
\* (goto 60 s, wait_for 10 s, the response RESPONSE_TIMEOUT, attach 60 s,
\* click 15 s, the others Playwright's default): the statement the program is
\* at returns or raises, so the run takes its next step
FairSpec == Spec /\ WF_vars(Next)

(***************************************************************************)
(* The section extractor alone: research_each_step is entered with an      *)
(* outline made of blocks, and lines 86-95 run.                            *)
(***************************************************************************)
ExtractInit ==
    /\ pc = "res_findall"
    /\ exc = NoExc
    /\ main_topic = <<"A", "I">>
    /\ safe_topic = <<"A", "I">>
    /\ dirExists = TRUE
    /\ browser_context = "open"
    /\ blocks \in BlockSeqs
    /\ outline = TextOf(blocks)
    /\ report = "none"
    /\ openPages = {}
    /\ webSearch = "checked"
    /\ toggles = 0
    /\ clipboard = outline
    /\ fileExists = FALSE
    /\ file = <<>>
    /\ section_titles = <<>>
    /\ i = 0
    /\ page = None
    /\ researched_text = <<>>
    /\ results = <<>>
    /\ acquired = 0
    /\ primary = "ok"
    /\ fallbacks = 0
    /\ trace = <<>>
    /\ entered = TRUE

ExtractNext == res_findall

ExtractSpec == ExtractInit /\ [][ExtractNext]_vars

(***************************************************************************)
(* The start of the main block alone (lines 162-174), over the topics of   *)
(* TopicStrings: the run stops before the browser is launched.             *)
(***************************************************************************)
SanitizeInit ==
    /\ pc = "main_input"
    /\ exc = NoExc
    /\ main_topic \in TopicStrings
    /\ safe_topic = <<>>
    /\ dirExists = FALSE
    /\ browser_context = "None"
    /\ outline = None
    /\ report = "none"
    /\ openPages = {}
    /\ webSearch = "unchecked"
    /\ toggles = 0
    /\ clipboard = <<>>
    /\ fileExists = FALSE
    /\ file = <<>>
    /\ section_titles = <<>>
    /\ i = 0
    /\ page = None
    /\ researched_text = <<>>
    /\ results = <<>>
    /\ acquired = 0
    /\ primary = "none"
    /\ fallbacks = 0
    /\ trace = <<>>
    /\ entered = FALSE
    /\ blocks = <<>>

SanitizeNext == main_input \/ main_setup

SanitizeSpec == SanitizeInit /\ [][SanitizeNext]_vars

(***************************************************************************)
(* Positions, and helpers of the properties.                               *)
(***************************************************************************)
\* the statements of the try block of generate_outline
GoSteps == {"go_navigate", "go_tools", "go_enable", "go_dismiss", "go_submit",
            "go_await", "go_attach", "go_click", "go_dispatch", "go_paste"}

\* the statements of the try block of the loop body of research_each_step
RsSteps == {"rs_new_page", "rs_navigate", "rs_tools", "rs_enable", "rs_dismiss",
            "rs_submit", "rs_await", "rs_attach", "rs_click", "rs_dispatch",
            "rs_paste", "rs_write"}

\* every statement of research_each_step
ResearchPcs == {"res_findall", "rs_except", "rs_finally"} \cup RsSteps

\* w occurs somewhere in s
Occurs(w, s) == \E p \in 1..Len(s) : StartsWith(s, p, w)

\* a written string that starts as one of the two error annotations does
IsErrorAnnotation(text) ==
    /\ text # <<>>
    /\ text[1] \in {"--- ERROR: FAILED TO COPY CONTENT FOR ",
                    "\n\n--- ERROR DURING RESEARCH FOR: "}

\* the title a record is tagged with: what stands between the rules of the
\* header line, or between the opening and " ---" of an error block
RecordTag(rec) ==
    IF Len(rec) = 2
    THEN SubSeq(rec[1], Len(Rule) + 4, Len(rec[1]) - (Len(Rule) + 3))
    ELSE IF \E p \in 1..Len(rec[1]) : rec[1][p] = " ---\nDetails: "
         THEN SubSeq(rec[1], 2,
                     (CHOOSE p \in 1..Len(rec[1]) : rec[1][p] = " ---\nDetails: ") - 1)
         ELSE <<>>

\* the blocks that are sections with their --- line, and the titles of blocks
IsTerminated(b) == b.kind = "terminated"
TitlesOf(bs) == [k \in 1..Len(bs) |-> bs[k].title]

\* s holds a heading of the grammar: ## <Introduction|Step <int>|Conclusion>:
HasHeading(s) ==
    \E p \in 1..Len(s) :
        /\ StartsWith(s, p, <<"#", "#">>)
        /\ p + 2 <= Len(s)
        /\ s[p + 2] \in WhiteSpace
        /\ LabelEnd(s, p + 3) # 0
        /\ StartsWith(s, LabelEnd(s, p + 3), <<":">>)

(***************************************************************************)
(* The properties.                                                         *)
(***************************************************************************)
\* C1: every extracted section produces exactly one record, however its
\* session ended: while the body of section i runs the file holds i - 1
\* records, after its record is written it holds i, and when
\* research_each_step has returned it holds as many records as sections were
\* extracted.
C1_OneRecordPerSection ==
    /\ pc \in RsSteps \cup {"rs_except"} => Len(file) = i - 1
    /\ pc = "rs_finally" => Len(file) = i
    /\ pc = "main_processed" => Len(file) = Len(section_titles)
    /\ report = "processed" => Len(file) = Len(section_titles)

\* research_each_step has returned from a run of at least two sections, of
\* which one failed and one succeeded
C1_Witness ==
    /\ pc = "main_processed"
    /\ Len(section_titles) >= 2
    /\ Len(file) = Len(section_titles)
    /\ \E k \in 1..Len(results) : results[k].ok
    /\ \E k \in 1..Len(results) : ~results[k].ok

\* C2: the k-th record of the output file carries the title of the k-th
\* extracted section (in upper case or as extracted); its body is the text
\* the section's session returned
\* when the session succeeded, and an error annotation (with the reason of
\* the exception, when there was one) when it failed.
C2_RecordsInSectionOrder ==
    \A k \in 1..Len(file) :
        /\ k <= Len(section_titles)
        /\ k <= Len(results)
        /\ RecordTag(file[k]) \in {upper(section_titles[k]), section_titles[k]}
        /\ IF results[k].ok
           THEN /\ Len(file[k]) = 2
                /\ file[k][2] = results[k].val
                /\ ~IsErrorAnnotation(file[k][2])
           ELSE /\ IsErrorAnnotation(file[k][Len(file[k])])
                /\ results[k].val # EmptyExtraction
                       => Occurs(results[k].val, file[k][Len(file[k])])

\* two records are written, the first for a failed session and the second
\* for a session that succeeded
C2_Witness ==
    /\ Len(file) >= 2
    /\ Len(results) >= 2
    /\ ~results[1].ok
    /\ results[2].ok
    /\ section_titles[1] # section_titles[2]

\* C3: one section's fault never stops the orchestrator: when the run is
\* over, every section extracted has been processed and has its record, also
\* when new_page or page.close failed for a section.
C3_EverySectionProcessed ==
    (pc = "done" /\ entered) => Len(file) = Len(section_titles)

\* C4: the page of a section is closed before the page of the next section
\* is opened: at most one page is open at any time, only the current
\* section's page is open while its body runs, no page is open when the next
\* is about to be opened, and none when research_each_step has returned.
C4_OneSurfaceAtATime ==
    /\ Cardinality(openPages) <= 1
    /\ pc \in ResearchPcs => openPages \subseteq {page}
    /\ pc = "rs_new_page" => openPages = {}
    /\ pc = "main_processed" => openPages = {}

\* the second section is about to open its page, after the first section
\* opened its own and failed
C4_Witness ==
    /\ pc = "rs_new_page"
    /\ i = 2
    /\ acquired = 1
    /\ ~results[1].ok
    /\ openPages = {}

\* C5: in every session, when the click of the copy button raised (for any
\* reason) dispatch_event was called exactly once before the session's
\* result, and when the click succeeded it was never called.
C5_FallbackAfterAnyFailure ==
    pc \in {"main_close_outline", "rs_finally"} =>
        /\ primary \in {"TimeoutError", "Error"} => fallbacks = 1
        /\ primary = "ok" => fallbacks = 0

\* C6: from an outline of k >= 1 sections, each a heading of the grammar
\* followed by its --- line (with or without text that holds no heading
\* around them), the extractor returns the k titles in the order of the
\* outline, duplicates included.
C6_WellFormedOutline ==
    (/\ pc # "res_findall"
     /\ \E k \in 1..Len(blocks) : blocks[k].kind = "terminated"
     /\ \A k \in 1..Len(blocks) : blocks[k].kind # "unterminated")
        => /\ section_titles = TitlesOf(SelectSeq(blocks, IsTerminated))
           /\ pc = "rs_new_page"

\* a well-formed outline was extracted: text without a heading, then two
\* sections of the same title, a Conclusion
C6_Witness ==
    /\ pc = "rs_new_page"
    /\ Len(blocks) = 3
    /\ blocks[1].kind = "other"
    /\ blocks[2].kind = "terminated"
    /\ blocks[3].kind = "terminated"
    /\ section_titles = <<Conclusion, Conclusion>>

\* C7: a section ends before the next --- or at the end of the outline: from
\* an outline of sections of which only the last has no --- line after it,
\* the extractor returns every title, the last included.
C7_LastSectionWithoutSeparator ==
    (/\ pc # "res_findall"
     /\ blocks # <<>>
     /\ blocks[Len(blocks)].kind = "unterminated"
     /\ \A k \in 1..(Len(blocks) - 1) : blocks[k].kind = "terminated")
        => section_titles = TitlesOf(blocks)

\* C8: when the outline holds no heading of the grammar, research_each_step
\* returns without raising, having opened no page, run no session and
\* written no record; the output file is not created.
C8_NoSectionsNoWork ==
    (entered /\ ~HasHeading(outline)) =>
        /\ pc \in {"res_findall", "main_processed", "main_finally", "done"}
        /\ exc = NoExc
        /\ acquired = 0
        /\ results = <<>>
        /\ file = <<>>
        /\ ~fileExists
        /\ section_titles = <<>>

\* the run is over after research_each_step was called with an outline that
\* holds no heading
C8_Witness ==
    /\ pc = "done"
    /\ entered
    /\ outline = Preamble
    /\ report = "processed"

\* C9: when generate_outline returned None, research_each_step is never
\* called, no page is opened for a section, nothing is written, and the run
\* ends with the failure reported and no exception in flight.
C9_FailedOutlineSkipsResearch ==
    outline = None =>
        /\ ~entered
        /\ pc \notin ResearchPcs \cup {"main_processed"}
        /\ acquired = 0
        /\ file = <<>>
        /\ ~fileExists
        /\ (pc = "done" /\ main_topic # <<>>)
               => (report \in {"skipped", "critical"} /\ exc = NoExc)

\* the run is over, generate_outline had failed after its click and its
\* dispatch_event both raised, and the skip was reported
C9_Witness ==
    /\ pc = "done"
    /\ outline = None
    /\ report = "skipped"
    /\ primary = "TimeoutError"
    /\ fallbacks = 1

\* C10: generate_outline never raises: an exception raised by one of its
\* statements is in flight only inside generate_outline, and when it has
\* returned no exception is in flight and its result is None or a text that
\* is not empty.
C10_OutlineSessionNeverRaises ==
    /\ exc.at \in GoSteps => pc \in {"go_except", "go_dispatch"}
    /\ pc = "main_close_outline" => (exc = NoExc /\ outline # <<>>)

\* generate_outline has returned None after a statement before the click
\* raised
C10_Witness ==
    /\ pc = "main_close_outline"
    /\ outline = None
    /\ primary = "none"
    /\ exc = NoExc

\* s is the beginning of t
IsPrefix(s, t) == Len(s) <= Len(t) /\ SubSeq(t, 1, Len(s)) = s

\* C11: the output file only grows, one record at a time: in every step the
\* records written so far stay as they are at the head of the file, the file
\* once created stays, and when the page of section i is about to be opened
\* the records of sections 1..i-1 are in the file.
C11_AppendOnly ==
    [][/\ IsPrefix(file, file')
       /\ Len(file') <= Len(file) + 1
       /\ fileExists => fileExists'
       /\ file' # <<>> => fileExists'
       /\ pc' = "rs_new_page" => Len(file') = i' - 1
       /\ acquired' # acquired => Len(file) = i - 1]_vars

\* the page of the third section is about to be opened with the records of
\* the first two sections in the file
C11_Witness ==
    /\ pc = "rs_new_page"
    /\ i = 3
    /\ Len(file) = 2
    /\ acquired = 2

\* the session made the call, with any outcome
Called(step) == \E k \in 1..Len(trace) : trace[k][1] = step

\* the section the calls of trace belong to: the next page is not yet opened
\* when the loop has moved on
TraceSection == IF pc = "rs_new_page" THEN i - 1 ELSE i

\* the wait for the response of the current section timed out
AwaitTimedOut == \E k \in 1..Len(trace) : trace[k] = <<"rs_await", "TimeoutError">>

\* str(e) of the TimeoutError of line 123
NoResponseText(title) ==
    <<"z.ai did not generate a response for '">> \o title \o <<"' within 15 minutes.">>

\* C12: when the wait for a section's response times out the session is
\* over: the wait is its last call, the copy button is neither clicked nor
\* sent a click event, the clipboard is not read, and the record of the
\* section is an error block that names the missing response.
C12_ResponseTimeoutAborts ==
    AwaitTimedOut =>
        /\ trace[Len(trace)] = <<"rs_await", "TimeoutError">>
        /\ ~Called("rs_attach") /\ ~Called("rs_click")
        /\ ~Called("rs_dispatch") /\ ~Called("rs_paste")
        /\ primary = "none" /\ fallbacks = 0
        /\ pc # "rs_attach"
        /\ IF pc = "rs_except"
           THEN /\ exc.type = "TimeoutError"
                /\ exc.msg = NoResponseText(section_titles[i])
           ELSE LET j == TraceSection
                IN /\ Len(file) >= j /\ Len(results) >= j
                   /\ results[j] = Failed(NoResponseText(section_titles[j]))
                   /\ Len(file[j]) = 1
                   /\ IsErrorAnnotation(file[j][1])
                   /\ Occurs(NoResponseText(section_titles[j]), file[j][1])

\* the record of the second section is written after its wait timed out,
\* the first section having succeeded
C12_Witness ==
    /\ pc = "rs_finally"
    /\ i = 2
    /\ AwaitTimedOut
    /\ results[1].ok
    /\ Len(file) = 2

\* the last call of the session is the one given, and it returned
EndedWith(step) == trace # <<>> /\ trace[Len(trace)] = <<step, "ok">>

\* C13: once the clipboard was read, the session failed with EmptyExtraction
\* exactly when the text read was empty, and returned that text otherwise.
\* An empty read makes generate_outline return None; for a section it gives
\* a record under the section's title whose body is an error annotation that
\* names the section, never an empty body.
C13_EmptyReadIsFailure ==
    /\ (pc = "main_close_outline" /\ EndedWith("go_paste")) =>
            outline = (IF clipboard = <<>> THEN None ELSE clipboard)
    /\ EndedWith("rs_paste") =>
            LET j == TraceSection
            IN /\ Len(results) >= j
               /\ results[j] = Failed(EmptyExtraction) <=> clipboard = <<>>
               /\ results[j].ok <=> clipboard # <<>>
               /\ results[j].ok => results[j].val = clipboard
               /\ pc # "rs_write" =>
                      /\ Len(file) >= j
                      /\ Len(file[j]) = 2
                      /\ RecordTag(file[j]) = upper(section_titles[j])
                      /\ file[j][2] # <<>>
                      /\ clipboard # <<>> => file[j][2] = clipboard
                      /\ clipboard = <<>> =>
                             /\ IsErrorAnnotation(file[j][2])
                             /\ Occurs(section_titles[j], file[j][2])

\* the second section returned a text after the first section read an empty
\* clipboard
C13_Witness ==
    /\ pc = "rs_finally"
    /\ i = 2
    /\ EndedWith("rs_paste")
    /\ results[1] = Failed(EmptyExtraction)
    /\ results[2].ok
    /\ Len(file) = 2

\* the statements that load the page, and those that enable Web Search
Loads == {"go_navigate", "rs_navigate"}
Enables == {"go_enable", "rs_enable"}

\* C14: in every session, lines 34-35 (110-111) click the Web Search checkbox
\* once when the page showed it unchecked and not at all when it showed it
\* checked, and leave it checked; no other statement clicks it, and once
\* checked it stays checked until a page is loaded again.
C14_EnableIsIdempotent ==
    [][/\ (pc \in Enables /\ pc' \notin {"go_except", "rs_except"}) =>
              /\ webSearch' = "checked"
              /\ toggles = 0
              /\ toggles' = IF webSearch = "unchecked" THEN 1 ELSE 0
       /\ pc \notin Enables \cup {"main_new_page", "rs_new_page"} => toggles' = toggles
       /\ (webSearch = "checked" /\ webSearch' # "checked") => pc \in Loads
       /\ (EndedWith("go_enable") \/ EndedWith("rs_enable")) => webSearch = "checked"]_vars

\* a section's session found Web Search unchecked and clicked it once, after
\* the session of the outline had found it checked
C14_Witness ==
    /\ pc = "rs_dismiss"
    /\ EndedWith("rs_enable")
    /\ toggles = 1
    /\ webSearch = "checked"

\* a session found Web Search checked and did not click it
C14_WitnessAlreadyOn ==
    /\ pc = "go_dismiss"
    /\ EndedWith("go_enable")
    /\ toggles = 0
    /\ webSearch = "checked"

\* line is the delimiter line of title: two line breaks, 20 "=", the title in
\* upper case between two spaces, 20 "=", two line breaks
IsDelimiterLine(line, title) ==
    LET n == Len(title)
    IN /\ Len(line) = 46 + n
       /\ SubSeq(line, 1, 2) = <<"\n", "\n">>
       /\ \A p \in 3..22 : line[p] = "="
       /\ line[23] = " "
       /\ SubSeq(line, 24, 23 + n) = upper(title)
       /\ line[24 + n] = " "
       /\ \A p \in (25 + n)..(44 + n) : line[p] = "="
       /\ SubSeq(line, 45 + n, 46 + n) = <<"\n", "\n">>

\* C15: every record of the output file, with researched text or with an
\* error annotation, is the delimiter line of its section (20 "=", the title
\* in upper case, 20 "=") followed by the body.
C15_UniformRecordShape ==
    \A k \in 1..Len(file) :
        /\ Len(file[k]) = 2
        /\ IsDelimiterLine(file[k][1], section_titles[k])

\* the records written by lines 145-147 (the session returned, with a text or
\* with an empty clipboard) have that shape
RecordsOfReturnedSessionsHaveShape ==
    \A k \in 1..Len(file) :
        (results[k].ok \/ results[k].val = EmptyExtraction) =>
            /\ Len(file[k]) = 2
            /\ IsDelimiterLine(file[k][1], section_titles[k])

\* C16: with an empty topic the only step of the run is the exit of line
\* 165: the research directory is left as it was (not created when it did
\* not exist), no output file is created, no browser is launched, no page is
\* opened and no session makes a call.
C16_EmptyTopicExits ==
    [][main_topic = <<>> =>
          /\ pc = "main_input" /\ pc' = "exited"
          /\ report' = "no_topic"
          /\ dirExists' = dirExists
          /\ ~fileExists' /\ file' = <<>>
          /\ browser_context' = "None"
          /\ openPages' = {} /\ acquired' = 0
          /\ trace' = <<>> /\ results' = <<>>
          /\ ~entered']_vars

\* the run has exited on an empty topic and the research directory, which
\* did not exist, still does not
C16_Witness ==
    /\ pc = "exited"
    /\ main_topic = <<>>
    /\ ~dirExists
    /\ browser_context = "None"

\* the positions of the topic that stay: those of the alphanumerics, spaces
\* and underscores up to the last of them that is not a space
Alphanumerics ==
    {"A", "B", "C", "D", "E", "F", "G", "H", "I", "J", "K", "L", "M", "N", "O",
     "P", "Q", "R", "S", "T", "U", "V", "W", "X", "Y", "Z", "a", "b", "c", "d",
     "e", "f", "g", "h", "i", "j", "k", "l", "m", "n", "o", "p", "q", "r", "s",
     "t", "u", "v", "w", "x", "y", "z", "0", "1", "2", "3", "4", "5", "6", "7",
     "8", "9"}
Allowed(topic) ==
    {p \in 1..Len(topic) : topic[p] \in Alphanumerics \cup {" ", "_"}}
StayingPositions(topic) ==
    {p \in Allowed(topic) : \E q \in Allowed(topic) : q >= p /\ topic[q] # " "}

\* C17: the topic in the file name is the topic without its characters that
\* are not alphanumerics, spaces or underscores, then without the spaces at
\* its end, then with "_" for each space left: the characters that stay keep
\* their order, the result holds alphanumerics and "_" only, and
\* 'AI & ML: 2024!' gives 'AI__ML_2024'.
C17_SafeTopic ==
    pc = "main_launch" =>
        LET stay == StayingPositions(main_topic)
        IN /\ Len(safe_topic) = Cardinality(stay)
           /\ \A p \in stay :
                  safe_topic[Cardinality({q \in stay : q <= p})] =
                      (IF main_topic[p] = " " THEN "_" ELSE main_topic[p])
           /\ \A k \in 1..Len(safe_topic) :
                  safe_topic[k] \in Alphanumerics \cup {"_"}
           /\ main_topic = ExampleTopic =>
                  safe_topic = <<"A", "I", "_", "_", "M", "L", "_", "2", "0", "2", "4">>

\* the file name is built from a topic that loses a character in its middle
\* and the space at its end
C17_Witness ==
    /\ pc = "main_launch"
    /\ main_topic = <<"A", "&", " ">>
    /\ safe_topic = <<"A">>

\* the file name is built from the topic 'AI & ML: 2024!'
C17_WitnessExample ==
    /\ pc = "main_launch"
    /\ main_topic = ExampleTopic
    /\ Len(safe_topic) = 11

\* the place of each call in the protocol of a session: acquire (1), load
\* the chat (2), open Tools and enable Web Search (3, 4), dismiss (5), submit
\* (6), await (7), attach (8), trigger (9, 10), read (11)
StepRank ==
    [s \in {"main_new_page", "rs_new_page"} |-> 1]
    @@ [s \in {"go_navigate", "rs_navigate"} |-> 2]
    @@ [s \in {"go_tools", "rs_tools"} |-> 3]
    @@ [s \in {"go_enable", "rs_enable"} |-> 4]
    @@ [s \in {"go_dismiss", "rs_dismiss"} |-> 5]
    @@ [s \in {"go_submit", "rs_submit"} |-> 6]
    @@ [s \in {"go_await", "rs_await"} |-> 7]
    @@ [s \in {"go_attach", "rs_attach"} |-> 8]
    @@ [s \in {"go_click", "rs_click"} |-> 9]
    @@ [s \in {"go_dispatch", "rs_dispatch"} |-> 10]
    @@ [s \in {"go_paste", "rs_paste"} |-> 11]

\* the call at place k of the session has the rank, and returned
Returned(k, rank) == StepRank[trace[k][1]] = rank /\ trace[k][2] = "ok"

\* C18: the calls of every session come in the order of the protocol and
\* each starts after the one before it returned (dispatch_event after the
\* click timed out): the session starts with its page, the prompt is
\* submitted only after the enable step returned, the copy button is clicked
\* or sent a click only after the wait for the response returned, and the
\* clipboard is read only after a click or a click event was issued and
\* returned.
C18_ProtocolOrder ==
    /\ trace # <<>> => StepRank[trace[1][1]] = 1
    /\ \A k \in 1..(Len(trace) - 1) :
          LET a == StepRank[trace[k][1]]
              b == StepRank[trace[k + 1][1]]
          IN \/ trace[k][2] = "ok" /\ b = a + 1 /\ a # 9
             \/ trace[k][2] = "ok" /\ a = 9 /\ b = 11
             \/ trace[k][2] = "TimeoutError" /\ a = 9 /\ b = 10
    /\ \A k \in 1..Len(trace) :
          LET a == StepRank[trace[k][1]]
          IN /\ a = 6 => \E j \in 1..(k - 1) : Returned(j, 4)
             /\ a \in {9, 10} => \E j \in 1..(k - 1) : Returned(j, 7)
             /\ a = 11 => \E j \in 1..(k - 1) : Returned(j, 9) \/ Returned(j, 10)

\* a section's session has read the clipboard after its click timed out and
\* its click event returned
C18_Witness ==
    /\ pc = "rs_write"
    /\ Len(trace) = 11
    /\ trace[9] = <<"rs_click", "TimeoutError">>
    /\ trace[10] = <<"rs_dispatch", "ok">>
    /\ trace[11] = <<"rs_paste", "ok">>

\* C19: every run over the extracted sections finishes with the loop of
\* research_each_step at the end of the sequence: once research_each_step is
\* entered, the run gets to the statement after its call (line 193), no call
\* of a session pending forever and no section left out.
C19_RunReachesEndOfSections == entered ~> (pc = "main_processed")

\* every run comes to its end: the exit of line 165 or the end of the main
\* block
Termination == <>(pc \in {"exited", "done"})

\* C20: the text a session returns is the text its own click (or click
\* event) put in the clipboard: the text of a section that succeeded is the
\* response to that section's prompt, and the outline generate_outline
\* returns is an outline the page delivered, never a text that was in the
\* clipboard before the session.
C20_ResultIsOwnDelivery ==
    /\ \A k \in 1..Len(results) :
          results[k].ok => results[k].val = Response(section_titles[k])
    /\ (pc = "main_close_outline" /\ outline # None) => outline \in Outlines

\* the record of the first section holds the outline, which was in the
\* clipboard when the section's click returned without writing to it
StaleTextRecorded ==
    /\ pc = "rs_finally"
    /\ i = 1
    /\ results[1] = Ok(outline)
    /\ file[1] = SectionRecord(section_titles[1], outline)

====
